---- MODULE Spec2Model ----
\* Model of src/src/lib/hooks/useInvestments.ts: the five query bindings, the two
\* mutation bindings, the query cache they share and the server they talk to.
EXTENDS Integers, Sequences, FiniteSets, TLC

VARIABLES
    srv,        \* the server's investments: [status : id -> status, count : Nat]
    user,       \* useUser().data : NoUser or [loaded |-> TRUE, id |-> string]
    cache,      \* the query cache: queryKey -> query state
    observers,  \* the mounted useQuery observers: [hook, key, enabled]
    mutations,  \* the mutations started so far, each with the log of its effects
    renders     \* number of mounts, unmounts and user changes so far

vars == <<srv, user, cache, observers, mutations, renders>>

----------------------------------------------------------------------------
\* Bounds of the model.

\* The number of things the user does: hooks mounted and unmounted, changes of the
\* logged-in user, and mutate() calls.
MaxEvents == 3

Events == renders + Len(mutations)

----------------------------------------------------------------------------
\* JavaScript values.

\* An optional string: <<>> is undefined, <<s>> is the string s.
Undefined == <<>>
Some(s) == <<s>>

\* !!v for an optional string: undefined and '' are falsy.
Truthy(v) == v # Undefined /\ v[1] # ""

\* One element of a query key as the cache hashes it: a string in quotes,
\* undefined as null.
Json(v) == IF v = Undefined THEN "null" ELSE "'" \o v[1] \o "'"

\* The hash of a filters object: properties in sorted order, undefined ones dropped.
FiltersJson(filters) ==
    IF ~filters.defined THEN "null"
    ELSE LET c == IF filters.currency = Undefined THEN ""
                  ELSE "'currency':" \o Json(filters.currency)
             s == IF filters.status = Undefined THEN ""
                  ELSE "'status':" \o Json(filters.status)
             sep == IF c # "" /\ s # "" THEN "," ELSE ""
         IN "{" \o c \o sep \o s \o "}"

\* URLSearchParams.toString(): name=value pairs joined by &.
RECURSIVE ParamsToString(_)
ParamsToString(params) ==
    IF params = <<>> THEN ""
    ELSE params[1][1] \o "=" \o params[1][2]
         \o (IF Len(params) > 1 THEN "&" ELSE "")
         \o ParamsToString(Tail(params))

----------------------------------------------------------------------------
\* The inputs the UI passes to the hooks.

Filters(c, s) == [defined |-> TRUE, currency |-> c, status |-> s]
NoFilters == [defined |-> FALSE, currency |-> Undefined, status |-> Undefined]

FilterArgs ==
    { NoFilters,
      Filters(Some("naira"), Undefined),
      Filters(Some(""), Some("active")),
      Filters(Some("naira"), Some("active")) }

PlanIdArgs == {"", "p1"}
InvestmentIds == {"i1", "i2"}
InvestmentIdArgs == {""} \cup InvestmentIds
UserIds == {"", "u1", "u2"}

NoUser == [loaded |-> FALSE, id |-> ""]
Users == {NoUser} \cup {[loaded |-> TRUE, id |-> u] : u \in UserIds}

\* user?.id
UserIdOf(u) == IF u.loaded THEN Some(u.id) ELSE Undefined

CreateInputs ==
    { [planId |-> "p1", amount |-> 100, currency |-> "naira"],
      [planId |-> "p2", amount |-> 50, currency |-> "usdt"] }

CancelInputs ==
    { [id |-> "i1", reason |-> Undefined],
      [id |-> "i2", reason |-> Some("changed my mind")] }

\* What a rejected api.post can carry in error.response?.data?.message.
ErrorShapes ==
    { [hasResponse |-> FALSE, message |-> Undefined],
      [hasResponse |-> TRUE, message |-> Undefined],
      [hasResponse |-> TRUE, message |-> Some("")],
      [hasResponse |-> TRUE, message |-> Some("Insufficient balance")] }

----------------------------------------------------------------------------
\* ../api: the endpoint table and the response-unwrapping helper.

endpoints_plans_all == "/plans"
endpoints_plans_byId(id) == "/plans/" \o id
endpoints_investments_my == "/investments/my"
endpoints_investments_byId(id) == "/investments/" \o id
endpoints_investments_create == "/investments"
endpoints_investments_cancel(id) == "/investments/" \o id \o "/cancel"
endpoints_investments_stats == "/investments/stats"

\* The JSON envelope { success, data } of a response is unwrapped to its data.
handleApiResponse(response) == response.data.data

----------------------------------------------------------------------------
\* The query bindings: key, request, result and enabled flag of each.

Str(s) == Json(Some(s))

\* The query key without the filters.
useInvestmentPlans_queryKey_noFilters(filters) == <<Str("investment-plans")>>
useInvestmentPlans_queryKey(filters) == <<Str("investment-plans"), FiltersJson(filters)>>

useInvestmentPlans_params(filters) ==
    (IF filters.defined /\ Truthy(filters.currency)
        THEN <<<<"currency", filters.currency[1]>>>> ELSE <<>>)
    \o (IF filters.defined /\ Truthy(filters.status)
        THEN <<<<"status", filters.status[1]>>>> ELSE <<>>)

useInvestmentPlans_request(filters) ==
    endpoints_plans_all \o "?" \o ParamsToString(useInvestmentPlans_params(filters))

useInvestmentPlans_result(response) == handleApiResponse(response)

useInvestmentPlan_queryKey(id) == <<Str("investment-plan"), Str(id)>>
useInvestmentPlan_request(id) == endpoints_plans_byId(id)
useInvestmentPlan_result(response) == handleApiResponse(response)
useInvestmentPlan_enabled(id) == Truthy(Some(id))

useMyInvestments_queryKey == <<Str("investments"), Str("my")>>
useMyInvestments_request == endpoints_investments_my
\* The binding returning the envelope instead of what the helper unwraps.
useMyInvestments_result_envelope(response) == response.data
useMyInvestments_result(response) == handleApiResponse(response)

useInvestment_queryKey(id) == <<Str("investment"), Str(id)>>
useInvestment_request(id) == endpoints_investments_byId(id)
useInvestment_result(response) == handleApiResponse(response)
\* The query enabled whatever its id.
useInvestment_enabled_always(id) == TRUE
useInvestment_enabled(id) == Truthy(Some(id))

useInvestmentStats_queryKey(userId) == <<Str("investments"), Str("stats"), Json(userId)>>

useInvestmentStats_request(userId) ==
    endpoints_investments_stats
    \o (IF Truthy(userId) THEN "?userId=" \o userId[1] ELSE "")

useInvestmentStats_result(response) == handleApiResponse(response)
useInvestmentStats_enabled(userId) == Truthy(userId)

\* The queryFn's return value, by hook.
QueryResult(hook, response) ==
    CASE hook = "useInvestmentPlans" -> useInvestmentPlans_result(response)
      [] hook = "useInvestmentPlan" -> useInvestmentPlan_result(response)
      [] hook = "useMyInvestments" -> useMyInvestments_result(response)
      [] hook = "useInvestment" -> useInvestment_result(response)
      [] hook = "useInvestmentStats" -> useInvestmentStats_result(response)

----------------------------------------------------------------------------
\* The server behind the endpoints.

Plans ==
    { [id |-> "p1", currency |-> "naira", status |-> "active"],
      [id |-> "p2", currency |-> "usdt", status |-> "active"],
      [id |-> "p3", currency |-> "naira", status |-> "inactive"],
      [id |-> "p4", currency |-> "usdt", status |-> "inactive"] }

\* The query string the plans route understands: absent parameters do not filter.
PlansQuery(c, s) ==
    (IF c # "" THEN "currency=" \o c ELSE "")
    \o (IF c # "" /\ s # "" THEN "&" ELSE "")
    \o (IF s # "" THEN "status=" \o s ELSE "")

Routes ==
    { [url |-> "/plans?" \o PlansQuery(c, s), route |-> "plans", a |-> c, b |-> s] :
        c \in {"", "naira", "usdt"}, s \in {"", "active", "inactive"} }
    \cup { [url |-> "/plans/" \o p.id, route |-> "plan", a |-> p.id, b |-> ""] : p \in Plans }
    \cup { [url |-> "/investments/my", route |-> "my", a |-> "", b |-> ""] }
    \cup { [url |-> "/investments/" \o i, route |-> "investment", a |-> i, b |-> ""] :
             i \in InvestmentIds }
    \cup { [url |-> "/investments/stats?userId=" \o u, route |-> "stats", a |-> u, b |-> ""] :
             u \in UserIds \ {""} }

PlansMatching(c, s) ==
    { p \in Plans : (c = "" \/ p.currency = c) /\ (s = "" \/ p.status = s) }

ActiveCount(s) ==
    Cardinality({ i \in InvestmentIds : s.status[i] = "active" })
    + (s.count - Cardinality(InvestmentIds))

\* The payload the server answers a GET with, in server state s.
ServerGet(url, s) ==
    IF \E r \in Routes : r.url = url
    THEN LET r == CHOOSE r \in Routes : r.url = url
         IN CASE r.route = "plans" ->
                   [kind |-> "InvestmentPlan[]", plans |-> PlansMatching(r.a, r.b)]
              [] r.route = "plan" ->
                   [kind |-> "InvestmentPlan", plan |-> CHOOSE p \in Plans : p.id = r.a]
              [] r.route = "my" ->
                   [kind |-> "Investment[]", status |-> s.status, count |-> s.count]
              [] r.route = "investment" ->
                   [kind |-> "Investment", id |-> r.a, status |-> s.status[r.a]]
              [] r.route = "stats" ->
                   [kind |-> "InvestmentStats", userId |-> r.a,
                    totalInvestments |-> s.count, activeInvestments |-> ActiveCount(s)]
    ELSE [kind |-> "NotFound", url |-> url]

\* The HTTP client's response object around the server's JSON envelope.
Response(payload) == [status |-> 200, data |-> [success |-> TRUE, data |-> payload]]

----------------------------------------------------------------------------
\* The query cache (@tanstack/react-query) as the hooks use it.

NoData == [kind |-> "undefined"]
NoResponse == [status |-> 0, data |-> [success |-> FALSE, data |-> NoData]]

\* A query as useQuery builds it on first use of its key.
NewQuery(hook, url) ==
    [hook |-> hook, url |-> url, status |-> "pending", data |-> NoData, hasData |-> FALSE,
     isInvalidated |-> FALSE, fetchStatus |-> "idle", response |-> NoResponse]

\* The query runs its queryFn: one GET to the queryFn's URL.
StartFetch(q) ==
    [q EXCEPT !.fetchStatus = "fetching", !.response = NoResponse,
              !.status = IF q.hasData THEN @ ELSE "pending"]

\* Query keys match a filter key element by element, as a prefix.
PartialMatchKey(prefix, key) ==
    /\ Len(prefix) <= Len(key)
    /\ \A i \in 1..Len(prefix) : key[i] = prefix[i]

\* A query is active when a mounted observer of it is enabled.
IsActive(key, obs) == \E o \in obs : o.key = key /\ o.enabled

\* query.fetch(cancelRefetch: true): a running fetch is cancelled and restarted only
\* when the query already holds data; a first fetch still running is joined.
RefetchIssues(q) == q.fetchStatus = "idle" \/ q.hasData
Refetch(q) == IF RefetchIssues(q) THEN StartFetch(q) ELSE q

\* queryClient.invalidateQueries({ queryKey: prefix }): every matching query is
\* marked invalidated, and the active ones among them are refetched.
InvalidateQueries(st, prefix) ==
    LET hit(k) == PartialMatchKey(prefix, k)
        act(k) == hit(k) /\ IsActive(k, st.observers)
    IN [st EXCEPT
          !.cache = [k \in DOMAIN st.cache |->
                       IF hit(k)
                       THEN LET q == [st.cache[k] EXCEPT !.isInvalidated = TRUE]
                            IN IF act(k) THEN Refetch(q) ELSE q
                       ELSE st.cache[k]]]

\* The effects a mutation callback can have.
Invalidate(key) == [op |-> "invalidateQueries", key |-> key, text |-> ""]
ToastSuccess(text) == [op |-> "toast.success", key |-> <<>>, text |-> text]
ToastError(text) == [op |-> "toast.error", key |-> <<>>, text |-> text]
Post(url) == [op |-> "api.post", key |-> <<>>, text |-> url]

\* Runs the effects of a mutation's callback in order, logging each in st.log.
RECURSIVE RunEffects(_, _)
RunEffects(st, effects) ==
    IF effects = <<>> THEN st
    ELSE LET e == effects[1]
             st1 == IF e.op = "invalidateQueries" THEN InvalidateQueries(st, e.key) ELSE st
         IN RunEffects([st1 EXCEPT !.log = Append(st1.log, e)], Tail(effects))

\* The client as a mutation's callback finds it; mlog is the mutation's log so far.
Client(mlog) == [cache |-> cache, observers |-> observers, log |-> mlog]

----------------------------------------------------------------------------
\* The mutation bindings.

\* error.response?.data?.message ?? fallback: an empty message is kept.
MessageOr_nullish(error, fallback) ==
    IF error.hasResponse /\ error.message # Undefined THEN error.message[1] ELSE fallback

\* error.response?.data?.message || fallback
MessageOr(error, fallback) ==
    IF error.hasResponse /\ Truthy(error.message) THEN error.message[1] ELSE fallback

useCreateInvestment_mutationFn(data) == <<Post(endpoints_investments_create)>>

\* The success handler with the wallet invalidation forgotten.
useCreateInvestment_onSuccess_noWallet(data) ==
    << Invalidate(<<Str("investments")>>),
       Invalidate(<<Str("user")>>) >>

useCreateInvestment_onSuccess(data) ==
    << Invalidate(<<Str("investments")>>),
       Invalidate(<<Str("user")>>),
       Invalidate(<<Str("wallet")>>) >>

useCreateInvestment_onError(error) ==
    << ToastError(MessageOr(error, "Failed to create investment")) >>

\* The mutationFn posting again, as a retry would.
useCancelInvestment_mutationFn_retry(variables) ==
    << Post(endpoints_investments_cancel(variables.id)),
       Post(endpoints_investments_cancel(variables.id)) >>

useCancelInvestment_mutationFn(variables) ==
    <<Post(endpoints_investments_cancel(variables.id))>>

\* The success handler toasting before it invalidates.
useCancelInvestment_onSuccess_toastFirst(data) ==
    << ToastSuccess("Investment cancelled successfully"),
       Invalidate(<<Str("investments")>>),
       Invalidate(<<Str("user")>>),
       Invalidate(<<Str("wallet")>>) >>

useCancelInvestment_onSuccess(data) ==
    << Invalidate(<<Str("investments")>>),
       Invalidate(<<Str("user")>>),
       Invalidate(<<Str("wallet")>>),
       ToastSuccess("Investment cancelled successfully") >>

\* The error handler also invalidating the investments.
useCancelInvestment_onError_invalidating(error) ==
    << Invalidate(<<Str("investments")>>),
       ToastError(MessageOr(error, "Failed to cancel investment")) >>

useCancelInvestment_onError(error) ==
    << ToastError(MessageOr(error, "Failed to cancel investment")) >>

----------------------------------------------------------------------------
\* The state after the application starts: nothing cached, nobody logged in yet.

Init ==
    /\ srv = [status |-> [i \in InvestmentIds |-> "active"],
              count |-> Cardinality(InvestmentIds)]
    /\ user = NoUser
    /\ cache = [k \in {} |-> NoData]
    /\ observers = {}
    /\ mutations = <<>>
    /\ renders = 0

----------------------------------------------------------------------------
\* useQuery: a component renders a hook.

\* An observer subscribes to its query: the query is built if the key is new, and
\* fetched when the observer is enabled and no fetch runs while the query holds no
\* data, is invalidated, or counts as stale (the client's staleTime decides).
Subscribe(others, hook, key, url, enabled) ==
    \E stale \in BOOLEAN :
        LET q == IF key \in DOMAIN cache
                 THEN [cache[key] EXCEPT !.url = url]
                 ELSE NewQuery(hook, url)
            go == /\ enabled
                  /\ q.fetchStatus = "idle"
                  /\ (~q.hasData \/ q.isInvalidated \/ stale)
        IN /\ cache' = (key :> (IF go THEN StartFetch(q) ELSE q)) @@ cache
           /\ observers' = others \cup {[hook |-> hook, key |-> key, enabled |-> enabled]}

Mount(hook, key, url, enabled) ==
    /\ Events < MaxEvents
    /\ [hook |-> hook, key |-> key, enabled |-> enabled] \notin observers
    /\ Subscribe(observers, hook, key, url, enabled)
    /\ renders' = renders + 1
    /\ UNCHANGED <<srv, user, mutations>>

RenderInvestmentPlans ==
    \E filters \in FilterArgs :
        Mount("useInvestmentPlans", useInvestmentPlans_queryKey(filters),
              useInvestmentPlans_request(filters), TRUE)

RenderInvestmentPlan ==
    \E id \in PlanIdArgs :
        Mount("useInvestmentPlan", useInvestmentPlan_queryKey(id),
              useInvestmentPlan_request(id), useInvestmentPlan_enabled(id))

RenderMyInvestments ==
    Mount("useMyInvestments", useMyInvestments_queryKey, useMyInvestments_request, TRUE)

RenderInvestment ==
    \E id \in InvestmentIdArgs :
        Mount("useInvestment", useInvestment_queryKey(id),
              useInvestment_request(id), useInvestment_enabled(id))

RenderInvestmentStats ==
    LET userId == UserIdOf(user)
    IN Mount("useInvestmentStats", useInvestmentStats_queryKey(userId),
             useInvestmentStats_request(userId), useInvestmentStats_enabled(userId))

\* A component using a hook leaves the screen; a running fetch goes on.
Unmount ==
    \E o \in observers :
        /\ Events < MaxEvents
        /\ observers' = observers \ {o}
        /\ renders' = renders + 1
        /\ UNCHANGED <<srv, user, cache, mutations>>

\* useUser() yields another value (login completes, logout, another account): a
\* mounted useInvestmentStats re-renders with the new userId and moves to its key.
UserChange ==
    \E u \in Users :
        /\ Events < MaxEvents
        /\ u # user
        /\ user' = u
        /\ renders' = renders + 1
        /\ LET old == { o \in observers : o.hook = "useInvestmentStats" }
               userId == UserIdOf(u)
           IN IF old = {}
              THEN UNCHANGED <<cache, observers>>
              ELSE Subscribe(observers \ old, "useInvestmentStats",
                             useInvestmentStats_queryKey(userId),
                             useInvestmentStats_request(userId),
                             useInvestmentStats_enabled(userId))
        /\ UNCHANGED <<srv, mutations>>

----------------------------------------------------------------------------
\* The round trip of a query's GET request.

\* The server answers the request from its state at that moment.
ServerAnswer ==
    \E key \in DOMAIN cache :
        /\ cache[key].fetchStatus = "fetching"
        /\ cache' = [cache EXCEPT ![key].fetchStatus = "answered",
                                  ![key].response = Response(ServerGet(cache[key].url, srv))]
        /\ UNCHANGED <<srv, user, observers, mutations, renders>>

\* The response arrives: the queryFn's result becomes the query's data.
Deliver ==
    \E key \in DOMAIN cache :
        /\ cache[key].fetchStatus = "answered"
        /\ cache' = [cache EXCEPT
                       ![key].fetchStatus = "idle",
                       ![key].status = "success",
                       ![key].data = QueryResult(cache[key].hook, cache[key].response),
                       ![key].hasData = TRUE,
                       ![key].isInvalidated = FALSE,
                       ![key].response = NoResponse]
        /\ UNCHANGED <<srv, user, observers, mutations, renders>>

\* The request fails for good (network error, server error): the data stays.
QueryFail ==
    \E key \in DOMAIN cache :
        /\ cache[key].fetchStatus \in {"fetching", "answered"}
        /\ cache' = [cache EXCEPT ![key].fetchStatus = "idle",
                                  ![key].status = "error",
                                  ![key].response = NoResponse]
        /\ UNCHANGED <<srv, user, observers, mutations, renders>>

----------------------------------------------------------------------------
\* useMutation: mutate() is called, and the POST succeeds or fails.

\* A mutation that has not failed carries no error.
NoError == [hasResponse |-> FALSE, message |-> Undefined]

\* mutate(): a new mutation runs its mutationFn.
Start(hook, target, requests) ==
    LET st == RunEffects(Client(<<>>), requests)
    IN /\ Events < MaxEvents
       /\ mutations' = Append(mutations, [hook |-> hook, target |-> target,
                                          status |-> "pending", error |-> NoError,
                                          log |-> st.log])
       /\ cache' = st.cache
       /\ UNCHANGED <<srv, user, observers, renders>>

\* Mutation m settles with the given status and its callback's effects run.
Settle(m, status, error, effects) ==
    LET st == RunEffects(Client(mutations[m].log), effects)
    IN /\ mutations' = [mutations EXCEPT ![m].status = status, ![m].error = error,
                                         ![m].log = st.log]
       /\ cache' = st.cache
       /\ UNCHANGED <<user, observers, renders>>

MutateCreate ==
    \E data \in CreateInputs :
        Start("useCreateInvestment", "", useCreateInvestment_mutationFn(data))

MutateCancel ==
    \E variables \in CancelInputs :
        Start("useCancelInvestment", variables.id, useCancelInvestment_mutationFn(variables))

\* The server creates the investment and the success handler runs.
CreateSucceeds ==
    \E m \in 1..Len(mutations) :
        /\ mutations[m].hook = "useCreateInvestment"
        /\ mutations[m].status = "pending"
        /\ srv' = [srv EXCEPT !.count = @ + 1]
        /\ Settle(m, "success", NoError, useCreateInvestment_onSuccess(
                     [kind |-> "Investment", id |-> "new", status |-> "active"]))

\* The server cancels an active investment and the success handler runs.
CancelSucceeds ==
    \E m \in 1..Len(mutations) :
        /\ mutations[m].hook = "useCancelInvestment"
        /\ mutations[m].status = "pending"
        /\ srv.status[mutations[m].target] = "active"
        /\ srv' = [srv EXCEPT !.status[mutations[m].target] = "cancelled"]
        /\ Settle(m, "success", NoError, useCancelInvestment_onSuccess(
                     [kind |-> "Investment", id |-> mutations[m].target,
                      status |-> "cancelled"]))

\* The POST is rejected (no answer, or an error answer): the error handler runs.
MutationFails ==
    \E m \in 1..Len(mutations), error \in ErrorShapes :
        /\ mutations[m].status = "pending"
        /\ UNCHANGED srv
        /\ Settle(m, "error", error,
                  IF mutations[m].hook = "useCreateInvestment"
                  THEN useCreateInvestment_onError(error)
                  ELSE useCancelInvestment_onError(error))

----------------------------------------------------------------------------

Next ==
    \/ RenderInvestmentPlans
    \/ RenderInvestmentPlan
    \/ RenderMyInvestments
    \/ RenderInvestment
    \/ RenderInvestmentStats
    \/ Unmount
    \/ UserChange
    \/ ServerAnswer
    \/ Deliver
    \/ QueryFail
    \/ MutateCreate
    \/ MutateCancel
    \/ CreateSucceeds
    \/ CancelSucceeds
    \/ MutationFails

Spec == Init /\ [][Next]_vars

----------------------------------------------------------------------------
\* Properties.

Mutation == 1..Len(mutations)

\* The places in mutation m's log where effect op was run.
Ops(m, op) == { i \in 1..Len(mutations[m].log) : mutations[m].log[i].op = op }

\* The key prefixes mutation m has asked the cache to invalidate.
InvalidatedKeys(m) == { mutations[m].log[i].key : i \in Ops(m, "invalidateQueries") }

Toasts(m) == Ops(m, "toast.error") \cup Ops(m, "toast.success")

Tags == {Str("investments"), Str("user"), Str("wallet")}

Succeeds(m) == mutations[m].status = "pending" /\ mutations'[m].status = "success"
Fails(m) == mutations[m].status = "pending" /\ mutations'[m].status = "error"

\* The rejection carries a non-empty response.data.message.
HasServerMessage(error) ==
    error.hasResponse /\ error.message # Undefined /\ error.message[1] # ""

Fallback(hook) ==
    IF hook = "useCreateInvestment"
    THEN "Failed to create investment"
    ELSE "Failed to cancel investment"

C1_State ==
    \A m \in Mutation :
        mutations[m].status = "success" => InvalidatedKeys(m) = { <<t>> : t \in Tags }

C1_Step ==
    \A m \in Mutation :
        Succeeds(m) =>
            \A k \in DOMAIN cache :
                cache'[k].isInvalidated = (cache[k].isInvalidated \/ k[1] \in Tags)

\* C1: a create or cancel mutation that succeeded has asked for the invalidation of
\* exactly ['investments'], ['user'] and ['wallet'], whatever its input, and its
\* success handler marks invalidated exactly the cached queries under these tags.
C1_InvalidatesThreeTags == []C1_State /\ [][C1_Step]_vars

C1_Witness ==
    \E m \in Mutation, k \in DOMAIN cache :
        /\ mutations[m].status = "success"
        /\ k[1] = Str("investments")
        /\ cache[k].isInvalidated

C2_State ==
    \A m \in Mutation :
        mutations[m].status = "error" =>
            /\ InvalidatedKeys(m) = {}
            /\ HasServerMessage(mutations[m].error) =>
                 \E i \in Ops(m, "toast.error") :
                     mutations[m].log[i].text = mutations[m].error.message[1]

C2_Step == \A m \in Mutation : Fails(m) => cache' = cache

\* C2: a failed create or cancel mutation has invalidated nothing, its step leaves
\* the cache as it was, and a message the server reported is what the error toast says.
C2_FailureLeavesCache == []C2_State /\ [][C2_Step]_vars

C2_Witness ==
    \E m \in Mutation, k \in DOMAIN cache :
        /\ mutations[m].status = "error"
        /\ HasServerMessage(mutations[m].error)
        /\ k[1] = Str("investments")
        /\ cache[k].hasData

C3_Step ==
    \A k \in DOMAIN cache :
        ( /\ cache[k].fetchStatus = "answered"
          /\ cache'[k].fetchStatus = "idle"
          /\ cache'[k].status = "success" )
        => /\ cache'[k].hasData
           /\ cache'[k].data = handleApiResponse(cache[k].response)

\* C3: when a response arrives, what any query binding puts in the cache is what
\* handleApiResponse yields for that response.
C3_BindingStoresUnwrapped == [][C3_Step]_vars

C3_Witness ==
    \E k \in DOMAIN cache :
        /\ cache[k].hook = "useMyInvestments"
        /\ cache[k].hasData
        /\ cache[k].data = ServerGet(endpoints_investments_my, srv)

C4_State ==
    \A m \in Mutation :
        /\ Ops(m, "api.post") = {1}
        /\ mutations[m].log[1].text =
             IF mutations[m].hook = "useCreateInvestment"
             THEN endpoints_investments_create
             ELSE endpoints_investments_cancel(mutations[m].target)
        /\ mutations[m].status = "pending" => Len(mutations[m].log) = 1
        /\ InvalidatedKeys(m) # {} => mutations[m].status = "success"

C4_Step == Len(mutations') > Len(mutations) => cache' = cache

\* C4: every mutation has issued exactly one POST, to its endpoint; while it is
\* pending it has done nothing else, mutate() itself changes no cache entry, and
\* only a mutation that succeeded has invalidated anything.
C4_OnePostNoOptimism == []C4_State /\ [][C4_Step]_vars

C4_Witness ==
    \E m \in Mutation, k \in DOMAIN cache :
        /\ mutations[m].status = "pending"
        /\ cache[k].hasData
        /\ ~cache[k].isInvalidated

\* The cache entries that show investment id or depend on it.
RelatedKeys(id) ==
    { useInvestment_queryKey(id), useMyInvestments_queryKey }
    \cup { useInvestmentStats_queryKey(u) : u \in {Undefined} \cup { Some(x) : x \in UserIds } }

\* The success handler of a cancel of X leaves the related entries that hold data
\* invalidated.
C5_Step ==
    \A m \in Mutation :
        (mutations[m].hook = "useCancelInvestment" /\ Succeeds(m)) =>
            \A k \in DOMAIN cache \cap RelatedKeys(mutations[m].target) :
                cache[k].hasData => cache'[k].isInvalidated

\* C5: after a successful cancel of investment X every cached entry related to X is
\* invalidated: ['investment', X], ['investments', 'my'] and the stats entries.
C5_CancelInvalidatesRelated == [][C5_Step]_vars

\* C6: once a mutation has succeeded, a mounted, enabled query under 'investments'
\* whose last request was answered and that has no request running holds what the
\* server would answer now.
C6_ReReadAfterSuccess ==
    \A k \in DOMAIN cache :
        ( /\ k[1] = Str("investments")
          /\ IsActive(k, observers)
          /\ \E m \in Mutation : mutations[m].status = "success"
          /\ cache[k].fetchStatus = "idle"
          /\ cache[k].status = "success" )
        => cache[k].data = ServerGet(cache[k].url, srv)

\* The keys of the queries whose parameter is missing.
MissingParameterKeys ==
    { useInvestmentPlan_queryKey(""), useInvestment_queryKey(""),
      useInvestmentStats_queryKey(Undefined), useInvestmentStats_queryKey(Some("")) }

\* C7: no request is ever running for a plan or an investment with the empty id or
\* for the stats of an unknown user, and a running stats request has the URL
\* '<stats>?userId=<id>' with a non-empty id.
C7_NoRequestWithoutParameter ==
    /\ \A k \in DOMAIN cache \cap MissingParameterKeys :
           cache[k].fetchStatus = "idle" /\ cache[k].status = "pending"
    /\ \A k \in DOMAIN cache :
           cache[k].fetchStatus # "idle" =>
               /\ cache[k].url \notin {endpoints_plans_byId(""), endpoints_investments_byId("")}
               /\ cache[k].hook = "useInvestmentStats" =>
                    \E u \in UserIds \ {""} :
                        cache[k].url = endpoints_investments_stats \o "?userId=" \o u

C7_Witness ==
    /\ useInvestmentStats_queryKey(Undefined) \in DOMAIN cache
    /\ \E k \in DOMAIN cache :
           /\ cache[k].hook = "useInvestmentStats"
           /\ cache[k].fetchStatus = "fetching"

\* C8: a failed mutation has shown exactly one toast, an error toast, saying the
\* server's message when the rejection carries a non-empty one and the hook's
\* fallback otherwise.
C8_OneErrorToast ==
    \A m \in Mutation :
        /\ mutations[m].status = "error" =>
             /\ Cardinality(Toasts(m)) = 1
             /\ \A i \in Toasts(m) :
                    mutations[m].log[i] =
                        ToastError(IF HasServerMessage(mutations[m].error)
                                   THEN mutations[m].error.message[1]
                                   ELSE Fallback(mutations[m].hook))
        /\ mutations[m].status # "success" => Ops(m, "toast.success") = {}

C8_Witness ==
    \E m \in Mutation :
        /\ mutations[m].status = "error"
        /\ mutations[m].error.hasResponse
        /\ mutations[m].error.message = Some("")

\* C9: a create that succeeded has shown no toast; a cancel that succeeded has shown
\* exactly one, the success toast, after asking for its three invalidations.
C9_SuccessToast ==
    \A m \in Mutation :
        mutations[m].status = "success" =>
            IF mutations[m].hook = "useCreateInvestment"
            THEN Toasts(m) = {}
            ELSE \E t \in Toasts(m) :
                    /\ Toasts(m) = {t}
                    /\ mutations[m].log[t] = ToastSuccess("Investment cancelled successfully")
                    /\ \A tag \in Tags :
                           \E i \in 1..(t - 1) : mutations[m].log[i] = Invalidate(<<tag>>)

C9_Witness ==
    \E m, n \in Mutation :
        /\ mutations[m].hook = "useCreateInvestment"
        /\ mutations[m].status = "success"
        /\ mutations[n].hook = "useCancelInvestment"
        /\ mutations[n].status = "success"

\* '' and undefined filter values ask the server for no filtering.
Asked(v) == IF v = Undefined THEN "" ELSE v[1]

Holds(k) == k \in DOMAIN cache /\ cache[k].hasData

\* C10: the data cached under a hook's key for given filters, id or userId is the
\* server's answer for exactly these: the plans matching the non-empty filter
\* values, the plan or investment with that id, the stats of that user.
C10_EntryMatchesKey ==
    /\ \A filters \in FilterArgs :
           Holds(useInvestmentPlans_queryKey(filters)) =>
               cache[useInvestmentPlans_queryKey(filters)].data =
                   [kind |-> "InvestmentPlan[]",
                    plans |-> PlansMatching(Asked(filters.currency), Asked(filters.status))]
    /\ \A id \in PlanIdArgs :
           Holds(useInvestmentPlan_queryKey(id)) =>
               /\ cache[useInvestmentPlan_queryKey(id)].data.kind = "InvestmentPlan"
               /\ cache[useInvestmentPlan_queryKey(id)].data.plan.id = id
    /\ \A id \in InvestmentIdArgs :
           Holds(useInvestment_queryKey(id)) =>
               /\ cache[useInvestment_queryKey(id)].data.kind = "Investment"
               /\ cache[useInvestment_queryKey(id)].data.id = id
    /\ \A u \in Users :
           Holds(useInvestmentStats_queryKey(UserIdOf(u))) =>
               /\ cache[useInvestmentStats_queryKey(UserIdOf(u))].data.kind = "InvestmentStats"
               /\ cache[useInvestmentStats_queryKey(UserIdOf(u))].data.userId = u.id

C10_Witness ==
    \E j, k \in DOMAIN cache :
        /\ j # k
        /\ cache[j].hook = "useInvestmentPlans" /\ cache[j].hasData
        /\ cache[k].hook = "useInvestmentPlans" /\ cache[k].hasData
        /\ cache[j].data # cache[k].data

====
